---- MODULE Spec2Model ----
(***************************************************************************)
(* The Responses binding of async-openai: the request data model of        *)
(* types/response.rs with the wire encoding its serde attributes give it,  *)
(* the derive_builder builders, and Responses::create of responses.rs.     *)
(*                                                                         *)
(* A JSON value is a record tagged by j.  Rust values are: a String Str(s), *)
(* a number Num(n), a Vec VecOf(seq), an Option None/Some(x), a struct a  *)
(* record with the source's field names, an enum value [variant] with the  *)
(* variant's name, and [variant, value] when the variant carries a value.  *)
(***************************************************************************)
EXTENDS Integers, Sequences, FiniteSets, TLC

VARIABLES
    feature_byot,  \* whether the crate is built with the "byot" feature
    builder,       \* the builder in use: its name and the fields set so far
    built,         \* what build() returned
    value,         \* the request-side value in hand: its type and the value
    json,          \* the JSON in hand: an encoding, or a payload received
    target,        \* the type the JSON is to be decoded as
    decoded,       \* what decoding returned
    pc,            \* where the create call is: idle, awaiting, done
    request,       \* the request create was called with
    posts,         \* the calls of the transport's post made by this create
    reply,         \* what the transport's post returned
    result         \* what create returned

vars == <<feature_byot, builder, built, value, json, target, decoded,
          pc, request, posts, reply, result>>

(***************************************************************************)
(* JSON values, Option and Result                                          *)
(***************************************************************************)
JNull == [j |-> "null"]
JStr(s) == [j |-> "str", s |-> s]
JNum(n) == [j |-> "num", n |-> n]
JArr(a) == [j |-> "arr", a |-> a]
JObj(o) == [j |-> "obj", o |-> o]
\* the JSON a type defined outside response.rs serializes to: opaque
JForeign(ty, x) == [j |-> "foreign", ty |-> ty, x |-> x]

Str(s) == [str |-> s]
Num(n) == [num |-> n]
VecOf(seq) == [vec |-> seq]
UnitVariant(n) == [variant |-> n]
\* a value of a type defined outside response.rs: opaque
ForeignValue(ty, x) == [foreign |-> ty, x |-> x]

None == [some |-> FALSE]
Some(x) == [some |-> TRUE, value |-> x]

Ok(x) == [ok |-> TRUE, value |-> x]
Err(e) == [ok |-> FALSE, error |-> e]

(***************************************************************************)
(* Type expressions                                                        *)
(***************************************************************************)
String == [k |-> "String"]
u32 == [k |-> "u32"]
f32 == [k |-> "f32"]
Option(t) == [k |-> "Option", of |-> t]
Vec(t) == [k |-> "Vec", of |-> t]
Named(n) == [k |-> "Named", name |-> n]
Foreign(n) == [k |-> "Foreign", name |-> n]
Unit == [k |-> "Unit"]

\* a struct field; skip is #[serde(skip_serializing_if = "Option::is_none")]
Field(n, t) == [name |-> n, ty |-> t, skip |-> FALSE]
SkipNone(n, t) == [name |-> n, ty |-> t, skip |-> TRUE]
\* an enum variant that carries a value of type t
Variant(n, t) == [name |-> n, ty |-> t]

NoRename == [v \in {} |-> ""]

(***************************************************************************)
(* serde's rename_all rules, on the variant names of response.rs           *)
(***************************************************************************)
Lowercase ==
    [v \in {"Concise", "Detailed", "None", "Auto", "Required", "Function",
            "Disabled", "Message", "High", "Low"} |->
        CASE v = "Concise" -> "concise" [] v = "Detailed" -> "detailed"
          [] v = "None" -> "none" [] v = "Auto" -> "auto"
          [] v = "Required" -> "required" [] v = "Function" -> "function"
          [] v = "Disabled" -> "disabled" [] v = "Message" -> "message"
          [] v = "High" -> "high" [] v = "Low" -> "low"]

SnakeCase ==
    [v \in {"Mac", "Windows", "Ubuntu", "Browser", "Approximate", "FileSearch",
            "Function", "ComputerUsePreview", "WebSearchPreview",
            "WebSearchPreview2025_03_11", "InputText", "InputImage",
            "InpuFile", "Message"} |->
        CASE v = "Mac" -> "mac" [] v = "Windows" -> "windows"
          [] v = "Ubuntu" -> "ubuntu" [] v = "Browser" -> "browser"
          [] v = "Approximate" -> "approximate"
          [] v = "FileSearch" -> "file_search"
          [] v = "Function" -> "function"
          [] v = "ComputerUsePreview" -> "computer_use_preview"
          [] v = "WebSearchPreview" -> "web_search_preview"
          [] v = "WebSearchPreview2025_03_11" -> "web_search_preview2025_03_11"
          [] v = "InputText" -> "input_text"
          [] v = "InputImage" -> "input_image"
          [] v = "InpuFile" -> "inpu_file"
          [] v = "Message" -> "message"]

RenameAll(rule, v) ==
    CASE rule = "lowercase" -> Lowercase[v]
      [] rule = "snake_case" -> SnakeCase[v]
      [] OTHER -> v

(***************************************************************************)
(* The types of types/response.rs                                          *)
(*   struct:   fields in source order                                      *)
(*   enum:     unit variants, written as a string token                    *)
(*   tagged:   #[serde(tag = "type")], the variant's fields beside the tag *)
(*   untagged: #[serde(untagged)], variants tried in source order          *)
(* default is the #[default] variant, "" where the source gives none.      *)
(***************************************************************************)
CreateResponse ==
    [kind |-> "struct",
     fields |-> << SkipNone("temperature", Option(f32)),
                   SkipNone("top_p", Option(f32)),
                   SkipNone("user", Option(String)),
                   SkipNone("previous_response_id", Option(String)),
                   Field("model", String),
                   SkipNone("reasoning", Option(Named("Reasoning"))),
                   SkipNone("max_output_tokens", Option(u32)),
                   SkipNone("instructions", Option(String)),
                   SkipNone("text", Option(Named("TextResponseFormat"))),
                   SkipNone("tools", Option(Vec(Named("Tool")))),
                   SkipNone("tool_choice", Option(Named("ToolChoice"))),
                   SkipNone("truncation", Option(Named("ResponseTruncation"))),
                   Field("input", Named("Input")) >>]

Reasoning ==
    [kind |-> "struct",
     fields |-> << SkipNone("effort", Option(Foreign("ReasoningEffort"))),
                   SkipNone("generate_summary", Option(Named("GenerateSummary"))) >>]

GenerateSummary ==
    [kind |-> "enum", variants |-> <<"Concise", "Detailed">>,
     rename_all |-> "lowercase", rename |-> NoRename, default |-> ""]

TextResponseFormat ==
    [kind |-> "struct", fields |-> << Field("format", Foreign("ResponseFormat")) >>]

\* Tool without the #[serde(rename)] of its last variant
Tool_NoRename ==
    [kind |-> "tagged", tag |-> "type",
     variants |-> << Variant("FileSearch", Named("FileSearchTool")),
                     Variant("Function", Foreign("FunctionObject")),
                     Variant("ComputerUsePreview", Named("ComputerTool")),
                     Variant("WebSearchPreview", Named("WebSearchTool")),
                     Variant("WebSearchPreview2025_03_11", Named("WebSearchTool")) >>,
     rename_all |-> "snake_case", rename |-> NoRename]

Tool ==
    [kind |-> "tagged", tag |-> "type",
     variants |-> << Variant("FileSearch", Named("FileSearchTool")),
                     Variant("Function", Foreign("FunctionObject")),
                     Variant("ComputerUsePreview", Named("ComputerTool")),
                     Variant("WebSearchPreview", Named("WebSearchTool")),
                     Variant("WebSearchPreview2025_03_11", Named("WebSearchTool")) >>,
     rename_all |-> "snake_case",
     rename |-> ("WebSearchPreview2025_03_11" :> "web_search_preview_2025_03_11")]

FileSearchTool ==
    [kind |-> "struct",
     fields |-> << Field("vector_store_ids", Vec(String)),
                   SkipNone("max_num_results", Option(u32)),
                   SkipNone("filters", Option(Foreign("VectorStoreSearchFilter"))),
                   SkipNone("ranking_options", Option(Foreign("RankingOptions"))) >>]

ComputerTool ==
    [kind |-> "struct",
     fields |-> << Field("display_width", u32),
                   Field("display_height", u32),
                   Field("environment", Named("Environment")) >>]

Environment ==
    [kind |-> "enum", variants |-> <<"Mac", "Windows", "Ubuntu", "Browser">>,
     rename_all |-> "snake_case", rename |-> NoRename, default |-> ""]

WebSearchTool ==
    [kind |-> "struct",
     fields |-> << Field("user_location", Option(Named("WebSearchToolUserLocation"))) >>]

WebSearchToolUserLocation ==
    [kind |-> "struct",
     fields |-> << Field("type", Named("LocationType")),
                   Field("country", Option(String)),
                   Field("region", Option(String)),
                   Field("city", Option(String)),
                   Field("timezone", Option(String)) >>]

\* LocationType without its #[serde(rename_all)]
LocationType_NoRenameAll ==
    [kind |-> "enum", variants |-> <<"Approximate">>,
     rename_all |-> "", rename |-> NoRename, default |-> "Approximate"]

LocationType ==
    [kind |-> "enum", variants |-> <<"Approximate">>,
     rename_all |-> "snake_case", rename |-> NoRename, default |-> "Approximate"]

ToolChoice ==
    [kind |-> "untagged",
     variants |-> << Variant("Options", Named("ToolChoiceOptions")),
                     Variant("Types", Named("ToolChoiceTypes")),
                     Variant("Function", Named("ToolChoiceFunction")) >>]

ToolChoiceOptions ==
    [kind |-> "enum", variants |-> <<"None", "Auto", "Required">>,
     rename_all |-> "lowercase", rename |-> NoRename, default |-> ""]

\* ToolChoiceTypes with one more unit variant, Function
ToolChoiceTypes_WithFunction ==
    [kind |-> "tagged", tag |-> "type",
     variants |-> << Variant("FileSearch", Unit),
                     Variant("ComputerUsePreview", Unit),
                     Variant("WebSearchPreview", Unit),
                     Variant("WebSearchPreview2025_03_11", Unit),
                     Variant("Function", Unit) >>,
     rename_all |-> "snake_case",
     rename |-> ("WebSearchPreview2025_03_11" :> "web_search_preview_2025_03_11")]

ToolChoiceTypes ==
    [kind |-> "tagged", tag |-> "type",
     variants |-> << Variant("FileSearch", Unit),
                     Variant("ComputerUsePreview", Unit),
                     Variant("WebSearchPreview", Unit),
                     Variant("WebSearchPreview2025_03_11", Unit) >>,
     rename_all |-> "snake_case",
     rename |-> ("WebSearchPreview2025_03_11" :> "web_search_preview_2025_03_11")]

ToolChoiceFunction ==
    [kind |-> "struct",
     fields |-> << Field("type", Named("FunctionToolType")),
                   Field("name", String) >>]

FunctionToolType ==
    [kind |-> "enum", variants |-> <<"Function">>,
     rename_all |-> "lowercase", rename |-> NoRename, default |-> "Function"]

ResponseTruncation ==
    [kind |-> "enum", variants |-> <<"Auto", "Disabled">>,
     rename_all |-> "lowercase", rename |-> NoRename, default |-> "Disabled"]

Input ==
    [kind |-> "untagged",
     variants |-> << Variant("String", String),
                     Variant("Array", Vec(Named("InputItem"))) >>]

InputItem ==
    [kind |-> "untagged",
     variants |-> << Variant("Message", Named("EasyInputMessage")),
                     Variant("Item", Named("Item")),
                     Variant("ItemReference", Foreign("ItemReference")) >>]

EasyInputMessage ==
    [kind |-> "struct",
     fields |-> << Field("type", Named("MessageType")),
                   Field("role", Named("EasyInputMessageRole")),
                   Field("content", Named("InputMessageContent")) >>]

MessageType ==
    [kind |-> "enum", variants |-> <<"Message">>,
     rename_all |-> "lowercase", rename |-> NoRename, default |-> "Message"]

EasyInputMessageRole ==
    [kind |-> "enum", variants |-> <<"User", "Assistant", "System", "Developer">>,
     rename_all |-> "", rename |-> NoRename, default |-> ""]

InputMessageContent ==
    [kind |-> "untagged",
     variants |-> << Variant("Text", String),
                     Variant("Array", Vec(Named("InputContent"))) >>]

InputContent ==
    [kind |-> "tagged", tag |-> "type",
     variants |-> << Variant("InputText", Named("InputText")),
                     Variant("InputImage", Named("InputImage")),
                     Variant("InpuFile", Named("InputFile")) >>,
     rename_all |-> "snake_case", rename |-> NoRename]

InputText ==
    [kind |-> "struct", fields |-> << Field("text", String) >>]

InputImage ==
    [kind |-> "struct",
     fields |-> << Field("image_url", Option(String)),
                   Field("file_id", Option(String)),
                   Field("detail", Named("ImageDetail")) >>]

ImageDetail ==
    [kind |-> "enum", variants |-> <<"High", "Low", "Auto">>,
     rename_all |-> "lowercase", rename |-> NoRename, default |-> "Auto"]

InputFile ==
    [kind |-> "struct",
     fields |-> << Field("file_id", Option(String)),
                   Field("filename", Option(String)),
                   Field("file_data", Option(String)) >>]

Item ==
    [kind |-> "tagged", tag |-> "type",
     variants |-> << Variant("Message", Named("InputMessage")) >>,
     rename_all |-> "snake_case", rename |-> NoRename]

InputMessage ==
    [kind |-> "struct",
     fields |-> << Field("role", Named("InputMessageRole")),
                   Field("status", Foreign("MessageStatus")),
                   Field("content", Vec(Named("InputContent"))) >>]

InputMessageRole ==
    [kind |-> "enum", variants |-> <<"User", "System", "Developer">>,
     rename_all |-> "", rename |-> NoRename, default |-> ""]

OutputMessage ==
    [kind |-> "struct",
     fields |-> << Field("id", String),
                   Field("type", Named("MessageType")),
                   Field("role", Named("InputMessageRole")),
                   Field("content", Vec(Named("InputContent"))) >>]

TypeDef(n) ==
    CASE n = "CreateResponse" -> CreateResponse
      [] n = "Reasoning" -> Reasoning
      [] n = "GenerateSummary" -> GenerateSummary
      [] n = "TextResponseFormat" -> TextResponseFormat
      [] n = "Tool" -> Tool
      [] n = "FileSearchTool" -> FileSearchTool
      [] n = "ComputerTool" -> ComputerTool
      [] n = "Environment" -> Environment
      [] n = "WebSearchTool" -> WebSearchTool
      [] n = "WebSearchToolUserLocation" -> WebSearchToolUserLocation
      [] n = "LocationType" -> LocationType
      [] n = "ToolChoice" -> ToolChoice
      [] n = "ToolChoiceOptions" -> ToolChoiceOptions
      [] n = "ToolChoiceTypes" -> ToolChoiceTypes
      [] n = "ToolChoiceFunction" -> ToolChoiceFunction
      [] n = "FunctionToolType" -> FunctionToolType
      [] n = "ResponseTruncation" -> ResponseTruncation
      [] n = "Input" -> Input
      [] n = "InputItem" -> InputItem
      [] n = "EasyInputMessage" -> EasyInputMessage
      [] n = "MessageType" -> MessageType
      [] n = "EasyInputMessageRole" -> EasyInputMessageRole
      [] n = "InputMessageContent" -> InputMessageContent
      [] n = "InputContent" -> InputContent
      [] n = "InputText" -> InputText
      [] n = "InputImage" -> InputImage
      [] n = "ImageDetail" -> ImageDetail
      [] n = "InputFile" -> InputFile
      [] n = "Item" -> Item
      [] n = "InputMessage" -> InputMessage
      [] n = "InputMessageRole" -> InputMessageRole
      [] n = "OutputMessage" -> OutputMessage

TypeNames ==
    {"CreateResponse", "Reasoning", "GenerateSummary", "TextResponseFormat",
     "Tool", "FileSearchTool", "ComputerTool", "Environment", "WebSearchTool",
     "WebSearchToolUserLocation", "LocationType", "ToolChoice",
     "ToolChoiceOptions", "ToolChoiceTypes", "ToolChoiceFunction",
     "FunctionToolType", "ResponseTruncation", "Input", "InputItem",
     "EasyInputMessage", "MessageType", "EasyInputMessageRole",
     "InputMessageContent", "InputContent", "InputText", "InputImage",
     "ImageDetail", "InputFile", "Item", "InputMessage", "InputMessageRole",
     "OutputMessage"}

Indexes(s) == 1..Len(s)
FieldNames(d) == {d.fields[i].name : i \in Indexes(d.fields)}
FieldOf(d, n) == d.fields[CHOOSE i \in Indexes(d.fields) : d.fields[i].name = n]
VariantOf(d, n) == d.variants[CHOOSE i \in Indexes(d.variants) : d.variants[i].name = n]

\* the string a variant is written as: #[serde(rename)] before rename_all
VariantToken(d, v) ==
    IF v \in DOMAIN d.rename THEN d.rename[v] ELSE RenameAll(d.rename_all, v)

VariantNames(d) ==
    IF d.kind = "enum" THEN {d.variants[i] : i \in Indexes(d.variants)}
    ELSE {d.variants[i].name : i \in Indexes(d.variants)}

Tokens(d) == {VariantToken(d, v) : v \in VariantNames(d)}
VariantOfToken(d, tok) == CHOOSE v \in VariantNames(d) : VariantToken(d, v) = tok

(***************************************************************************)
(* Serialize, as #[derive(Serialize)] writes each shape                    *)
(***************************************************************************)
\* the keys a struct writes with no skip_serializing_if on any field
WrittenFields_NoSkip(d, v) == FieldNames(d)

\* the keys a struct writes: a skip_serializing_if field is left out when None
WrittenFields(d, v) ==
    {d.fields[i].name : i \in {k \in Indexes(d.fields) :
                                 ~(d.fields[k].skip /\ ~v[d.fields[k].name].some)}}

RECURSIVE Serialize(_, _)
Serialize(t, v) ==
    CASE t.k = "String" -> JStr(v.str)
      [] t.k \in {"u32", "f32"} -> JNum(v.num)
      [] t.k = "Option" -> IF v.some THEN Serialize(t.of, v.value) ELSE JNull
      [] t.k = "Vec" -> JArr([i \in Indexes(v.vec) |-> Serialize(t.of, v.vec[i])])
      [] t.k = "Foreign" -> JForeign(t.name, v)
      [] t.k = "Named" ->
           LET d == TypeDef(t.name) IN
           CASE d.kind = "struct" ->
                  JObj([n \in WrittenFields(d, v) |-> Serialize(FieldOf(d, n).ty, v[n])])
             [] d.kind = "enum" -> JStr(VariantToken(d, v.variant))
             [] d.kind = "tagged" ->
                  LET vt == VariantOf(d, v.variant).ty
                      body == CASE vt.k = "Unit" -> <<>>
                                [] vt.k = "Foreign" -> (vt.name :> JForeign(vt.name, v.value))
                                [] OTHER -> Serialize(vt, v.value).o
                  IN  JObj((d.tag :> JStr(VariantToken(d, v.variant))) @@ body)
             [] d.kind = "untagged" ->
                  Serialize(VariantOf(d, v.variant).ty, v.value)

(***************************************************************************)
(* Deserialize, as #[derive(Deserialize)] reads each shape.  A struct      *)
(* needs every field that is not an Option and ignores unknown keys; a     *)
(* missing or null Option is None.  ir is whether ItemReference, a type    *)
(* this file names and does not define, accepts a JSON object.  Structs    *)
(* and tagged enums are read from JSON objects; serde's positional form,   *)
(* a JSON array of the fields in order, is not among the inputs.           *)
(***************************************************************************)
FirstError(rs) == rs[CHOOSE i \in Indexes(rs) : ~rs[i].ok /\ \A k \in 1..(i - 1) : rs[k].ok]
AllOk(rs) == \A i \in Indexes(rs) : rs[i].ok

RECURSIVE Deserialize(_, _, _)
Deserialize(t, j, ir) ==
    CASE t.k = "String" -> IF j.j = "str" THEN Ok(Str(j.s)) ELSE Err("invalid type")
      [] t.k \in {"u32", "f32"} ->
           IF j.j = "num" THEN Ok(Num(j.n)) ELSE Err("invalid type")
      [] t.k = "Option" ->
           IF j.j = "null" THEN Ok(None)
           ELSE LET r == Deserialize(t.of, j, ir) IN IF r.ok THEN Ok(Some(r.value)) ELSE r
      [] t.k = "Vec" ->
           IF j.j # "arr" THEN Err("invalid type")
           ELSE LET rs == [i \in Indexes(j.a) |-> Deserialize(t.of, j.a[i], ir)]
                IN  IF AllOk(rs) THEN Ok(VecOf([i \in Indexes(rs) |-> rs[i].value]))
                    ELSE FirstError(rs)
      [] t.k = "Foreign" ->
           IF j.j = "foreign" THEN (IF j.ty = t.name THEN Ok(j.x) ELSE Err("invalid type"))
           ELSE IF t.name = "ItemReference" /\ j.j = "obj" /\ ir
                THEN Ok(ForeignValue(t.name, "unspecified"))
           ELSE Err("invalid type")
      [] t.k = "Named" ->
           LET d == TypeDef(t.name) IN
           CASE d.kind = "struct" ->
                  IF j.j # "obj" THEN Err("invalid type")
                  ELSE LET rs == [i \in Indexes(d.fields) |->
                                   LET f == d.fields[i] IN
                                   IF f.name \in DOMAIN j.o
                                   THEN Deserialize(f.ty, j.o[f.name], ir)
                                   ELSE IF f.ty.k = "Option" THEN Ok(None)
                                   ELSE Err("missing field")]
                       IN  IF AllOk(rs)
                           THEN Ok([n \in FieldNames(d) |->
                                     rs[CHOOSE i \in Indexes(d.fields) : d.fields[i].name = n].value])
                           ELSE FirstError(rs)
             [] d.kind = "enum" ->
                  IF j.j # "str" THEN Err("invalid type")
                  ELSE IF j.s \in Tokens(d) THEN Ok(UnitVariant(VariantOfToken(d, j.s)))
                  ELSE Err("unknown variant")
             [] d.kind = "tagged" ->
                  IF j.j # "obj" THEN Err("invalid type")
                  ELSE IF d.tag \notin DOMAIN j.o THEN Err("missing field")
                  ELSE IF j.o[d.tag].j # "str" THEN Err("invalid type")
                  ELSE IF j.o[d.tag].s \notin Tokens(d) THEN Err("unknown variant")
                  ELSE LET vn == VariantOfToken(d, j.o[d.tag].s)
                           vt == VariantOf(d, vn).ty
                           rest == [n \in DOMAIN j.o \ {d.tag} |-> j.o[n]]
                       IN  CASE vt.k = "Unit" -> Ok(UnitVariant(vn))
                             [] vt.k = "Foreign" ->
                                  IF vt.name \in DOMAIN rest
                                  THEN LET r == Deserialize(vt, rest[vt.name], ir)
                                       IN  IF r.ok THEN Ok([variant |-> vn, value |-> r.value])
                                           ELSE r
                                  ELSE Err("missing field")
                             [] OTHER ->
                                  LET r == Deserialize(vt, JObj(rest), ir)
                                  IN  IF r.ok THEN Ok([variant |-> vn, value |-> r.value])
                                      ELSE r
             [] d.kind = "untagged" ->
                  LET rs == [i \in Indexes(d.variants) |-> Deserialize(d.variants[i].ty, j, ir)]
                  IN  IF \E i \in Indexes(rs) : rs[i].ok
                      THEN LET i == CHOOSE i \in Indexes(rs) :
                                      rs[i].ok /\ \A k \in 1..(i - 1) : ~rs[k].ok
                           IN  Ok([variant |-> d.variants[i].name, value |-> rs[i].value])
                      ELSE Err("data did not match any variant")

(***************************************************************************)
(* The values the operations are given                                     *)
(***************************************************************************)
\* values of the types response.rs imports from the rest of the crate
ForeignValues(n) ==
    CASE n = "ReasoningEffort" -> {ForeignValue(n, "Low")}
      [] n = "ResponseFormat" -> {ForeignValue(n, "Text")}
      [] n = "FunctionObject" -> {ForeignValue(n, "get_weather")}
      [] n = "VectorStoreSearchFilter" -> {ForeignValue(n, "a_filter")}
      [] n = "RankingOptions" -> {ForeignValue(n, "some_ranking")}
      [] n = "MessageStatus" -> {ForeignValue(n, "Completed")}
      [] n = "ItemReference" -> {ForeignValue(n, "an_item_reference")}

RECURSIVE Values(_), StructValues(_, _)
\* every value of type t over one-element strings, numbers and vectors
Values(t) ==
    CASE t.k = "String" -> {Str("hi")}
      [] t.k \in {"u32", "f32"} -> {Num(1)}
      [] t.k = "Option" -> {None} \cup {Some(x) : x \in Values(t.of)}
      [] t.k = "Vec" -> {VecOf(<<>>)} \cup {VecOf(<<x>>) : x \in Values(t.of)}
      [] t.k = "Foreign" -> ForeignValues(t.name)
      [] t.k = "Named" ->
           LET d == TypeDef(t.name) IN
           CASE d.kind = "struct" -> StructValues(d, Len(d.fields))
             [] d.kind = "enum" -> {UnitVariant(n) : n \in VariantNames(d)}
             [] OTHER ->
                  UNION {IF d.variants[i].ty.k = "Unit"
                         THEN {UnitVariant(d.variants[i].name)}
                         ELSE {[variant |-> d.variants[i].name, value |-> x] :
                                 x \in Values(d.variants[i].ty)} :
                         i \in Indexes(d.variants)}
StructValues(d, i) ==
    IF i = 0 THEN {<<>>}
    ELSE {r @@ (d.fields[i].name :> x) :
            r \in StructValues(d, i - 1), x \in Values(d.fields[i].ty)}

\* one input item of each variant, and inputs and tool lists made of them
InputItemSamples ==
    { [variant |-> "Message",
       value |-> [type |-> UnitVariant("Message"), role |-> UnitVariant("User"),
                  content |-> [variant |-> "Text", value |-> Str("hi")]]],
      [variant |-> "Item",
       value |-> [variant |-> "Message",
                  value |-> [role |-> UnitVariant("User"),
                             status |-> ForeignValue("MessageStatus", "Completed"),
                             content |-> VecOf(<< [variant |-> "InputText",
                                                   value |-> [text |-> Str("hi")]] >>)]]],
      [variant |-> "ItemReference",
       value |-> ForeignValue("ItemReference", "an_item_reference")] }

InputSamples ==
    {[variant |-> "String", value |-> Str("hi")], [variant |-> "Array", value |-> VecOf(<<>>)]}
    \cup {[variant |-> "Array", value |-> VecOf(<<x>>)] : x \in InputItemSamples}

ToolSamples ==
    { [variant |-> "FileSearch",
       value |-> [vector_store_ids |-> VecOf(<<Str("hi")>>), max_num_results |-> None,
                  filters |-> None, ranking_options |-> None]],
      [variant |-> "Function", value |-> ForeignValue("FunctionObject", "get_weather")],
      [variant |-> "ComputerUsePreview",
       value |-> [display_width |-> Num(1), display_height |-> Num(1),
                  environment |-> UnitVariant("Mac")]],
      [variant |-> "WebSearchPreview", value |-> [user_location |-> None]],
      [variant |-> "WebSearchPreview2025_03_11", value |-> [user_location |-> None]] }

ToolsSamples == {VecOf(<<>>)} \cup {VecOf(<<x>>) : x \in ToolSamples}

\* the type a setter takes: strip_option makes it T for a field Option<T>
SetterType(t) == IF t.k = "Option" THEN t.of ELSE t

SetterValues(struct, f) ==
    CASE struct = "CreateResponse" /\ f.name = "input" -> InputSamples
      [] struct = "CreateResponse" /\ f.name = "tools" -> ToolsSamples
      [] OTHER -> Values(SetterType(f.ty))

(***************************************************************************)
(* #[derive(Default)]: the value of each type, a set where the source      *)
(* gives the type no Default (an enum with no #[default] variant, an       *)
(* imported type): any variant with default contents.                      *)
(***************************************************************************)
RECURSIVE DefaultValues(_), StructDefaults(_, _)
DefaultValues(t) ==
    CASE t.k = "String" -> {Str("")}
      [] t.k \in {"u32", "f32"} -> {Num(0)}
      [] t.k = "Option" -> {None}
      [] t.k = "Vec" -> {VecOf(<<>>)}
      [] t.k = "Foreign" -> ForeignValues(t.name)
      [] t.k = "Named" ->
           LET d == TypeDef(t.name) IN
           CASE d.kind = "struct" -> StructDefaults(d, Len(d.fields))
             [] d.kind = "enum" ->
                  IF d.default # "" THEN {UnitVariant(d.default)}
                  ELSE {UnitVariant(n) : n \in VariantNames(d)}
             [] OTHER ->
                  UNION {IF d.variants[i].ty.k = "Unit"
                         THEN {UnitVariant(d.variants[i].name)}
                         ELSE {[variant |-> d.variants[i].name, value |-> x] :
                                 x \in DefaultValues(d.variants[i].ty)} :
                         i \in Indexes(d.variants)}
StructDefaults(d, i) ==
    IF i = 0 THEN {<<>>}
    ELSE {r @@ (d.fields[i].name :> x) :
            r \in StructDefaults(d, i - 1), x \in DefaultValues(d.fields[i].ty)}

(***************************************************************************)
(* The builders: #[builder(setter(into, strip_option), default)] on the    *)
(* struct, #[builder(default = "...")] on a field                          *)
(***************************************************************************)
NoFieldDefault == [f \in {} |-> None]

CreateResponseArgs == [struct |-> "CreateResponse", field_default |-> NoFieldDefault]
FileSearchToolArgs == [struct |-> "FileSearchTool", field_default |-> NoFieldDefault]
ComputerToolArgs == [struct |-> "ComputerTool", field_default |-> NoFieldDefault]
WebSearchToolArgs == [struct |-> "WebSearchTool", field_default |-> NoFieldDefault]
WebSearchToolUserLocationArgs ==
    [struct |-> "WebSearchToolUserLocation", field_default |-> NoFieldDefault]
ToolChoiceFunctionArgs ==
    [struct |-> "ToolChoiceFunction", field_default |-> ("type" :> UnitVariant("Function"))]
EasyInputMessageArgs ==
    [struct |-> "EasyInputMessage", field_default |-> ("type" :> UnitVariant("Message"))]
InputMessageArgs == [struct |-> "InputMessage", field_default |-> NoFieldDefault]
OutputMessageArgs ==
    [struct |-> "OutputMessage",
     field_default |-> ("type" :> UnitVariant("Message")
                        @@ "role" :> UnitVariant("Assistant"))]

BuilderNames ==
    {"CreateResponseArgs", "FileSearchToolArgs", "ComputerToolArgs",
     "WebSearchToolArgs", "WebSearchToolUserLocationArgs", "ToolChoiceFunctionArgs",
     "EasyInputMessageArgs", "InputMessageArgs", "OutputMessageArgs"}

BuilderDef(b) ==
    CASE b = "CreateResponseArgs" -> CreateResponseArgs
      [] b = "FileSearchToolArgs" -> FileSearchToolArgs
      [] b = "ComputerToolArgs" -> ComputerToolArgs
      [] b = "WebSearchToolArgs" -> WebSearchToolArgs
      [] b = "WebSearchToolUserLocationArgs" -> WebSearchToolUserLocationArgs
      [] b = "ToolChoiceFunctionArgs" -> ToolChoiceFunctionArgs
      [] b = "EasyInputMessageArgs" -> EasyInputMessageArgs
      [] b = "InputMessageArgs" -> InputMessageArgs
      [] b = "OutputMessageArgs" -> OutputMessageArgs

\* how many different fields one builder has set
MaxFieldsSet == 2

\* build(): a field never set takes its field default, else the struct's Default
BuildValue(b, set, dflt) ==
    [n \in FieldNames(TypeDef(BuilderDef(b).struct)) |->
        IF n \in DOMAIN set THEN set[n]
        ELSE IF n \in DOMAIN BuilderDef(b).field_default
             THEN BuilderDef(b).field_default[n]
        ELSE dflt[n]]

UninitializedField(f) == [kind |-> "UninitializedField", field |-> f]

\* build() of a builder without the struct-level default: an unset field fails
build_NoStructDefault(b, set, dflt) ==
    LET unset == {i \in Indexes(TypeDef(BuilderDef(b).struct).fields) :
                    /\ TypeDef(BuilderDef(b).struct).fields[i].name \notin DOMAIN set
                    /\ TypeDef(BuilderDef(b).struct).fields[i].name
                          \notin DOMAIN BuilderDef(b).field_default}
    IN  IF unset = {} THEN Ok(BuildValue(b, set, dflt))
        ELSE Err(UninitializedField(
                   TypeDef(BuilderDef(b).struct).fields[
                       CHOOSE i \in unset : \A k \in unset : i <= k].name))

build(b, set, dflt) == Ok(BuildValue(b, set, dflt))

(***************************************************************************)
(* JSON payloads received from outside                                     *)
(***************************************************************************)
Part(present, k, v) == IF present THEN (k :> v) ELSE <<>>

\* objects over the keys of an input message, "role" in either case
InputItemPayloads ==
    {JObj(Part(ty, "type", JStr("message"))
          @@ (IF role = "" THEN <<>> ELSE ("role" :> JStr(role)))
          @@ Part(content, "content", JStr("hi"))
          @@ Part(status, "status", JForeign("MessageStatus", ForeignValue("MessageStatus", "Completed")))
          @@ Part(extra, "metadata", JStr("x"))) :
        ty \in BOOLEAN, role \in {"", "user", "User"}, content \in BOOLEAN,
        status \in BOOLEAN, extra \in BOOLEAN}

ToolBodies ==
    { <<>>,
      ("vector_store_ids" :> JArr(<<JStr("hi")>>)),
      ("FunctionObject" :> JForeign("FunctionObject", ForeignValue("FunctionObject", "get_weather"))),
      ("display_width" :> JNum(1) @@ "display_height" :> JNum(1)
         @@ "environment" :> JStr("mac")),
      ("user_location" :> JNull),
      ("vector_store_ids" :> JArr(<<JStr("hi")>>)
         @@ "FunctionObject" :> JForeign("FunctionObject", ForeignValue("FunctionObject", "get_weather"))
         @@ "display_width" :> JNum(1) @@ "display_height" :> JNum(1)
         @@ "environment" :> JStr("mac") @@ "user_location" :> JNull) }

ToolTypeTokens ==
    {"file_search", "function", "computer_use_preview", "web_search_preview",
     "web_search_preview_2025_03_11", "web_search_preview2025_03_11",
     "code_interpreter", "FileSearch", "Function", ""}

\* objects with and without a "type" key, over bodies fit for each tool
ToolPayloads ==
    {JObj(body) : body \in ToolBodies}
    \cup {JObj(("type" :> JStr(tok)) @@ body) : tok \in ToolTypeTokens, body \in ToolBodies}
    \cup {JObj(("type" :> JNum(1)) @@ body) : body \in ToolBodies}

ToolChoiceStrings ==
    {"none", "auto", "required", "None", "file_search", "function", ""}

ToolChoiceTypeTokens ==
    {"file_search", "computer_use_preview", "web_search_preview",
     "web_search_preview_2025_03_11", "function", "Function", "auto",
     "code_interpreter"}

ToolChoiceNames == {JStr("hi"), JStr("auto"), JNum(1), JNull}

\* strings, and objects with and without the keys "type" and "name"
ToolChoicePayloads ==
    {JStr(s) : s \in ToolChoiceStrings}
    \cup {JNull, JNum(1), JObj(<<>>), JObj("type" :> JNum(1)),
          JObj("type" :> JNum(1) @@ "name" :> JStr("hi"))}
    \cup {JObj("name" :> n) : n \in ToolChoiceNames}
    \cup {JObj(("type" :> JStr(tok)) @@ Part(extra, "metadata", JStr("x"))) :
             tok \in ToolChoiceTypeTokens, extra \in BOOLEAN}
    \cup {JObj(("type" :> JStr(tok)) @@ ("name" :> n)
               @@ Part(extra, "metadata", JStr("x"))) :
             tok \in ToolChoiceTypeTokens, n \in ToolChoiceNames, extra \in BOOLEAN}

PayloadTypes == {"InputItem", "Tool", "ToolChoice"}

Payloads(ty) ==
    CASE ty = "InputItem" -> InputItemPayloads
      [] ty = "Tool" -> ToolPayloads
      [] ty = "ToolChoice" -> ToolChoicePayloads
      [] OTHER -> {}

(***************************************************************************)
(* State                                                                   *)
(***************************************************************************)
NoBuilder == [name |-> ""]
NoValue == [ty |-> ""]
NoJson == [j |-> "none"]
NoResult == [pending |-> TRUE]
NoRequest == [none |-> TRUE]

\* the types a caller writes directly, as a literal
LiteralTypes == TypeNames \ {"CreateResponse"}

InvalidArgument(msg) == [kind |-> "InvalidArgument", message |-> msg]

\* what the transport's post can return: a Response, or one of its errors
Replies ==
    {Ok([id |-> "resp_123"])}
    \cup {Err([kind |-> k]) : k \in {"Reqwest", "ApiError", "JSONDeserialize"}}

Empty ==
    /\ builder = NoBuilder
    /\ value = NoValue
    /\ json = NoJson
    /\ pc = "idle"

Init ==
    /\ feature_byot \in BOOLEAN
    /\ builder = NoBuilder
    /\ built = NoResult
    /\ value = NoValue
    /\ json = NoJson
    /\ target = ""
    /\ decoded = NoResult
    /\ pc = "idle"
    /\ request = NoRequest
    /\ posts = <<>>
    /\ reply = NoResult
    /\ result = NoResult

(***************************************************************************)
(* Construction                                                            *)
(***************************************************************************)
\* XArgs::default()
NewBuilder(b) ==
    /\ Empty
    /\ builder' = [name |-> b, set |-> <<>>]
    /\ UNCHANGED <<feature_byot, built, value, json, target, decoded,
                   pc, request, posts, reply, result>>

\* a setter: stores the value, wrapped in Some for an Option field
Setter ==
    /\ builder # NoBuilder
    /\ built = NoResult
    /\ LET struct == BuilderDef(builder.name).struct
           d == TypeDef(struct)
       IN  \E n \in FieldNames(d) :
             /\ n \in DOMAIN builder.set \/ Cardinality(DOMAIN builder.set) < MaxFieldsSet
             /\ \E x \in SetterValues(struct, FieldOf(d, n)) :
                   builder' = [builder EXCEPT !.set =
                                 (n :> IF FieldOf(d, n).ty.k = "Option" THEN Some(x) ELSE x) @@ @]
    /\ UNCHANGED <<feature_byot, built, value, json, target, decoded,
                   pc, request, posts, reply, result>>

Build ==
    /\ builder # NoBuilder
    /\ built = NoResult
    /\ LET struct == BuilderDef(builder.name).struct
           d == TypeDef(struct)
       IN  \E dflt \in StructDefaults(d, Len(d.fields)) :
             /\ built' = build(builder.name, builder.set, dflt)
             /\ value' = IF built'.ok THEN [ty |-> struct, v |-> built'.value]
                         ELSE NoValue
    /\ UNCHANGED <<feature_byot, builder, json, target, decoded,
                   pc, request, posts, reply, result>>

\* a value written as a struct or enum literal
Literal ==
    /\ Empty
    /\ \E ty \in LiteralTypes : \E x \in Values(Named(ty)) :
          value' = [ty |-> ty, v |-> x]
    /\ UNCHANGED <<feature_byot, builder, built, json, target, decoded,
                   pc, request, posts, reply, result>>

(***************************************************************************)
(* Encoding and decoding                                                   *)
(***************************************************************************)
Encode ==
    /\ value # NoValue
    /\ json = NoJson
    /\ pc = "idle"
    /\ json' = Serialize(Named(value.ty), value.v)
    /\ target' = value.ty
    /\ UNCHANGED <<feature_byot, builder, built, value, decoded,
                   pc, request, posts, reply, result>>

Receive ==
    /\ Empty
    /\ \E ty \in PayloadTypes : \E p \in Payloads(ty) :
          /\ json' = p
          /\ target' = ty
    /\ UNCHANGED <<feature_byot, builder, built, value, decoded,
                   pc, request, posts, reply, result>>

Decode(ir) ==
    /\ json # NoJson
    /\ decoded = NoResult
    /\ decoded' = Deserialize(Named(target), json, ir)
    /\ UNCHANGED <<feature_byot, builder, built, value, json, target,
                   pc, request, posts, reply, result>>

(***************************************************************************)
(* Responses::create                                                       *)
(***************************************************************************)
\* the guard with its test of the flag inverted
StreamGuard_Inverted(req) ==
    ~feature_byot /\ req.stream.some /\ ~req.stream.value

\* the guard, compiled only without the "byot" feature
StreamGuard(req) ==
    ~feature_byot /\ req.stream.some /\ req.stream.value

\* create up to the await: the guard, then the one call of post
create(stream) ==
    /\ value # NoValue
    /\ value.ty = "CreateResponse"
    /\ json = NoJson
    /\ pc = "idle"
    /\ request' = [body |-> value.v, stream |-> stream]
    /\ IF StreamGuard(request')
       THEN /\ result' = Err(InvalidArgument("When stream is true, use Responses::create_stream"))
            /\ pc' = "done"
            /\ posts' = posts
       ELSE /\ posts' = Append(posts, [path |-> "/responses",
                                       body |-> Serialize(Named("CreateResponse"), value.v)])
            /\ pc' = "awaiting"
            /\ result' = result
    /\ UNCHANGED <<feature_byot, builder, built, value, json, target, decoded, reply>>

\* create retrying a failed post instead of returning its error
post_returns_Retry(r) ==
    /\ pc = "awaiting"
    /\ reply' = r
    /\ IF r.ok
       THEN /\ result' = r
            /\ pc' = "done"
            /\ posts' = posts
       ELSE /\ posts' = Append(posts, posts[1])
            /\ pc' = IF Len(posts) < 2 THEN "awaiting" ELSE "done"
            /\ result' = IF Len(posts) < 2 THEN result ELSE r
    /\ UNCHANGED <<feature_byot, builder, built, value, json, target, decoded, request>>

\* the await ends: create returns what post returned
post_returns(r) ==
    /\ pc = "awaiting"
    /\ reply' = r
    /\ result' = r
    /\ pc' = "done"
    /\ UNCHANGED <<feature_byot, builder, built, value, json, target, decoded,
                   request, posts>>

Next ==
    \/ \E b \in BuilderNames : NewBuilder(b)
    \/ Setter
    \/ Build
    \/ Literal
    \/ Encode
    \/ Receive
    \/ \E ir \in BOOLEAN : Decode(ir)
    \/ \E stream \in {None, Some(TRUE), Some(FALSE)} : create(stream)
    \/ \E r \in Replies : post_returns(r)

Spec == Init /\ [][Next]_vars

(***************************************************************************)
(* Properties                                                              *)
(***************************************************************************)
Called == request # NoRequest
StreamTrue == Called /\ request.stream = Some(TRUE)
IsInvalidArgument(r) == r # NoResult /\ ~r.ok /\ r.error.kind = "InvalidArgument"

\* C1, as claimed: in every build configuration, create with the streaming
\* flag true returns InvalidArgument and never calls the transport's post.
C1_GuardInEveryBuild ==
    StreamTrue => /\ pc = "done"
                  /\ IsInvalidArgument(result)
                  /\ posts = <<>>

\* C1, amended: in a build without the "byot" feature, create with the
\* streaming flag true returns InvalidArgument and never calls post.
C1_GuardWithoutByot ==
    (StreamTrue /\ ~feature_byot) => /\ pc = "done"
                                     /\ IsInvalidArgument(result)
                                     /\ posts = <<>>

C1_Witness ==
    /\ StreamTrue
    /\ ~feature_byot
    /\ pc = "done"
    /\ IsInvalidArgument(result)
    /\ posts = <<>>

\* the fields the claim calls required, per builder
C2_Required(b) ==
    CASE b = "CreateResponseArgs" -> {"model", "input"}
      [] b = "FileSearchToolArgs" -> {"vector_store_ids"}
      [] b = "ComputerToolArgs" -> {"display_width", "display_height", "environment"}
      [] OTHER -> {}

MissingRequiredField(f) == [kind |-> "MissingRequiredField", field |-> f]

\* C2, as claimed: build() on a builder with a required field never set fails
\* with MissingRequiredField naming a field never set, and yields no value.
C2_BuildFailsOnUnsetField ==
    (built # NoResult /\ C2_Required(builder.name) \ DOMAIN builder.set # {})
        => /\ ~built.ok
           /\ \E f \in C2_Required(builder.name) \ DOMAIN builder.set :
                built.error = MissingRequiredField(f)
           /\ value = NoValue

\* the default the struct gives a field the builder never set
C2_Default(f) ==
    CASE f = "model" -> Str("")
      [] f = "vector_store_ids" -> VecOf(<<>>)
      [] f \in {"display_width", "display_height"} -> Num(0)

\* C2, amended: build() does not fail on an unset field; it returns a value
\* in which a never-set model is the empty string, a never-set
\* vector_store_ids is empty and a never-set display_width or display_height
\* is 0.
C2_BuildDefaultsUnsetField ==
    built # NoResult
        => /\ built.ok
           /\ value = [ty |-> BuilderDef(builder.name).struct, v |-> built.value]
           /\ \A f \in (C2_Required(builder.name) \ DOMAIN builder.set)
                         \ {"input", "environment"} :
                built.value[f] = C2_Default(f)

C2_Witness ==
    /\ builder.name = "CreateResponseArgs"
    /\ "model" \notin DOMAIN builder.set
    /\ built # NoResult
    /\ built.ok
    /\ built.value.model = Str("")

\* the JSON in hand is the encoding of the value in hand
Encoded == value # NoValue /\ json # NoJson

\* C3, as claimed: decoding the encoding of a CreateResponse gives the value
\* back, an InputItem of the Item variant included.
C3_RoundTrip ==
    (Encoded /\ value.ty = "CreateResponse" /\ decoded # NoResult)
        => decoded = Ok(value.v)

\* the payload {"role":"user","content":"hi"}, alone or with an unrelated key
C4_Payloads ==
    {JObj("role" :> JStr("user") @@ "content" :> JStr("hi")),
     JObj("role" :> JStr("user") @@ "content" :> JStr("hi") @@ "metadata" :> JStr("x"))}

\* C4, as claimed: decoding {"role":"user","content":"hi"} as an InputItem
\* succeeds and selects the Message variant, with or without unrelated keys.
C4_SelectsMessage ==
    (target = "InputItem" /\ json \in C4_Payloads /\ decoded # NoResult)
        => /\ decoded.ok
           /\ decoded.value.variant = "Message"

\* a CreateResponse built with exactly model and input set
C5_OnlyRequired ==
    /\ builder.name = "CreateResponseArgs"
    /\ DOMAIN builder.set = {"model", "input"}
    /\ built # NoResult

\* C5: a CreateResponse built with only model and input set is written as a
\* JSON object whose keys are exactly model and input, in an encoding and in
\* the body create posts.
C5_OnlyRequiredKeys ==
    C5_OnlyRequired
        => /\ json # NoJson => (json.j = "obj" /\ DOMAIN json.o = {"model", "input"})
           /\ \A i \in Indexes(posts) :
                posts[i].body.j = "obj" /\ DOMAIN posts[i].body.o = {"model", "input"}

C5_Witness ==
    /\ C5_OnlyRequired
    /\ json # NoJson
    /\ DOMAIN json.o = {"model", "input"}

\* the variant each type token of the external vocabulary names
C6_Variant(tok) ==
    CASE tok = "file_search" -> "FileSearch"
      [] tok = "function" -> "Function"
      [] tok = "computer_use_preview" -> "ComputerUsePreview"
      [] tok = "web_search_preview" -> "WebSearchPreview"
      [] tok = "web_search_preview_2025_03_11" -> "WebSearchPreview2025_03_11"

C6_Tokens ==
    {"file_search", "function", "computer_use_preview", "web_search_preview",
     "web_search_preview_2025_03_11"}

\* whether the keys beside the tag are those the tool needs
C6_BodyFits(tok, o) ==
    CASE tok = "file_search" -> "vector_store_ids" \in DOMAIN o
      [] tok = "function" -> "FunctionObject" \in DOMAIN o
      [] tok = "computer_use_preview" ->
           {"display_width", "display_height", "environment"} \subseteq DOMAIN o
      [] OTHER -> TRUE

C6_Recognized(o) ==
    /\ "type" \in DOMAIN o
    /\ o["type"].j = "str"
    /\ o["type"].s \in C6_Tokens

\* C6: a Tool object whose type is one of the five tokens and whose body fits
\* that tool decodes to the variant the token names; an object with any
\* other type, or with none, fails to decode.
C6_TaggedExhaustive ==
    (target = "Tool" /\ value = NoValue /\ decoded # NoResult)
        => IF C6_Recognized(json.o)
           THEN /\ C6_BodyFits(json.o["type"].s, json.o) => decoded.ok
                /\ decoded.ok => decoded.value.variant = C6_Variant(json.o["type"].s)
           ELSE ~decoded.ok

C6_Witness ==
    /\ target = "Tool"
    /\ value = NoValue
    /\ decoded # NoResult
    /\ C6_Recognized(json.o)
    /\ json.o["type"].s = "web_search_preview_2025_03_11"
    /\ decoded.ok
    /\ decoded.value.variant = "WebSearchPreview2025_03_11"

\* C7: a create call whose streaming flag is not true makes exactly one post,
\* to /responses with the serialized request, and returns what that post
\* returned, an error included, without a second post.
C7_OnePost ==
    (Called /\ ~StreamTrue)
        => /\ Len(posts) = 1
           /\ posts[1].path = "/responses"
           /\ posts[1].body = Serialize(Named("CreateResponse"), request.body)
           /\ pc \in {"awaiting", "done"}
           /\ pc = "awaiting" => (reply = NoResult /\ result = NoResult)
           /\ pc = "done" => (reply \in Replies /\ result = reply)

C7_Witness ==
    /\ Called
    /\ ~StreamTrue
    /\ pc = "done"
    /\ ~reply.ok
    /\ result = reply
    /\ Len(posts) = 1

\* the record types of the request side
C8_Records ==
    {n \in TypeNames : TypeDef(n).kind = "struct"}

\* C8, as claimed: in the encoding of every request-side record no key is
\* null, and every field that is not an Option is present.
C8_NoNullInAnyRecord ==
    (Encoded /\ value.ty \in C8_Records)
        => /\ \A k \in DOMAIN json.o : json.o[k] # JNull
           /\ \A i \in Indexes(TypeDef(value.ty).fields) :
                TypeDef(value.ty).fields[i].ty.k # "Option"
                    => TypeDef(value.ty).fields[i].name \in DOMAIN json.o

C9_Enums ==
    {"EasyInputMessageRole", "InputMessageRole", "ToolChoiceOptions",
     "ResponseTruncation", "ImageDetail", "GenerateSummary", "Environment",
     "LocationType", "MessageType", "FunctionToolType"}

\* the lowercase token of a variant name
C9_Lower(v) ==
    CASE v = "User" -> "user" [] v = "Assistant" -> "assistant"
      [] v = "System" -> "system" [] v = "Developer" -> "developer"
      [] v = "None" -> "none" [] v = "Auto" -> "auto"
      [] v = "Required" -> "required" [] v = "Disabled" -> "disabled"
      [] v = "High" -> "high" [] v = "Low" -> "low"
      [] v = "Concise" -> "concise" [] v = "Detailed" -> "detailed"
      [] v = "Mac" -> "mac" [] v = "Windows" -> "windows"
      [] v = "Ubuntu" -> "ubuntu" [] v = "Browser" -> "browser"
      [] v = "Approximate" -> "approximate" [] v = "Message" -> "message"
      [] v = "Function" -> "function"

\* C9, as claimed: every value of these enums is written as its lowercase
\* token (the user role as "user"), and decodes back from it.
C9_LowercaseTokens ==
    (Encoded /\ value.ty \in C9_Enums)
        => /\ json = JStr(C9_Lower(value.v.variant))
           /\ decoded # NoResult => decoded = Ok(value.v)

\* the value and the token the type field of each builder's struct defaults to
C10_Variant(b) ==
    CASE b = "WebSearchToolUserLocationArgs" -> "Approximate"
      [] b = "ToolChoiceFunctionArgs" -> "Function"
      [] b \in {"EasyInputMessageArgs", "OutputMessageArgs"} -> "Message"

C10_Token(b) ==
    CASE b = "WebSearchToolUserLocationArgs" -> "approximate"
      [] b = "ToolChoiceFunctionArgs" -> "function"
      [] b \in {"EasyInputMessageArgs", "OutputMessageArgs"} -> "message"

C10_Builders ==
    {"WebSearchToolUserLocationArgs", "ToolChoiceFunctionArgs",
     "EasyInputMessageArgs", "OutputMessageArgs"}

\* C10: a WebSearchToolUserLocation, ToolChoiceFunction, EasyInputMessage or
\* OutputMessage built without setting type has the fixed variant as its type
\* and writes it as approximate, function, message and message, whatever
\* other fields were set.
C10_TypeDefaults ==
    (builder.name \in C10_Builders /\ "type" \notin DOMAIN builder.set
     /\ built # NoResult)
        => /\ built.ok
           /\ built.value["type"] = UnitVariant(C10_Variant(builder.name))
           /\ json # NoJson =>
                (/\ json.j = "obj"
                 /\ "type" \in DOMAIN json.o
                 /\ json.o["type"] = JStr(C10_Token(builder.name)))

C10_Witness ==
    /\ builder.name = "WebSearchToolUserLocationArgs"
    /\ DOMAIN builder.set = {"country"}
    /\ built # NoResult
    /\ json # NoJson
    /\ json.o["type"] = JStr("approximate")

\* the shapes of ToolChoice, in the order of the variants in the source
C11_Shapes == <<"ToolChoiceOptions", "ToolChoiceTypes", "ToolChoiceFunction">>

\* the variants of ToolChoice whose own decoder accepts the JSON value j
C11_Accepting(j, ir) ==
    {i \in Indexes(C11_Shapes) : Deserialize(Named(C11_Shapes[i]), j, ir).ok}

\* the variant the claim names for a JSON value, 0 for none: a bare string
\* none|auto|required, an object tagged with a built-in tool type, an object
\* {"type": "function", "name": <string>}
C11_Shape(j) ==
    IF j.j = "str" /\ j.s \in {"none", "auto", "required"} THEN 1
    ELSE IF j.j = "obj" /\ "type" \in DOMAIN j.o /\ j.o["type"].j = "str"
            /\ j.o["type"].s \in {"file_search", "computer_use_preview",
                                  "web_search_preview", "web_search_preview_2025_03_11"}
         THEN 2
    ELSE IF j.j = "obj" /\ "type" \in DOMAIN j.o /\ j.o["type"] = JStr("function")
            /\ "name" \in DOMAIN j.o /\ j.o["name"].j = "str"
         THEN 3
    ELSE 0

\* C11: no JSON value, received or encoded, is accepted by more than one of
\* the three shapes of ToolChoice; decoding it as a ToolChoice gives the
\* variant of the one shape that accepts it, holding what that shape decoded,
\* and fails with "data did not match any variant" when no shape accepts it;
\* the shape is the one the claim describes for that value; and an encoded
\* ToolChoice decodes back to the value, hence the variant, it was encoded
\* from.
C11_FirstAndOnlyMatch ==
    (json # NoJson /\ target = "ToolChoice") =>
        \A ir \in BOOLEAN :
            LET acc == C11_Accepting(json, ir) IN
            /\ Cardinality(acc) <= 1
            /\ acc = (IF C11_Shape(json) = 0 THEN {} ELSE {C11_Shape(json)})
            /\ decoded # NoResult =>
                  /\ decoded.ok <=> acc # {}
                  /\ ~decoded.ok => decoded = Err("data did not match any variant")
                  /\ decoded.ok =>
                        \E i \in acc :
                           /\ decoded.value.variant = ToolChoice.variants[i].name
                           /\ Ok(decoded.value.value)
                                = Deserialize(Named(C11_Shapes[i]), json, ir)
                  /\ value # NoValue => decoded = Ok(value.v)

\* an encoded ToolChoice::Function decoded back as the Function variant
C11_Witness ==
    /\ Encoded
    /\ value.ty = "ToolChoice"
    /\ value.v.variant = "Function"
    /\ json.o["type"] = JStr("function")
    /\ decoded # NoResult
    /\ decoded.ok
    /\ decoded.value.variant = "Function"

====
